---- MODULE Spec2Model ----
(***************************************************************************)
(* Model of the gesture-to-intent layer of ShapeIt: the GestureInterpreter *)
(* (app/gestures/rules.py), the Controller mode machine                    *)
(* (app/state/controller.py), the shapes (app/models/shapes.py) and the    *)
(* frame loop of app/main.py that drives them.                             *)
(*                                                                         *)
(* Numbers.  The program computes in floats.  The model computes in fixed  *)
(* point: lengths and coordinates in whole pixels, angles in whole         *)
(* degrees, a pinch ratio in hundredths (RatioUnit).  The inputs are chosen *)
(* so that every distance the program compares is a whole number.          *)
(***************************************************************************)
EXTENDS Integers, Sequences, FiniteSets, TLC

\* --------------------------------------------------------------- bounds
\* Ticks of the frame loop that a run takes, and the times the hand changes
\* its pose in it (Spec).
MaxFrames == 13
MaxPoseChanges == 2
\* The same for a run that lasts beyond the cooldown (SpecHold), in which
\* the hand holds a pose for stretches of HoldStretch ticks.
MaxHoldFrames == 41
MaxHoldChanges == 3
HoldStretch == 10
\* Calls of GestureInterpreter.compute in a run of SpecEngine.
MaxComputeCalls == 7
\* Ticks of a run that end with a shape selected.
MaxGrabTicks == 2
\* Ticks of a run that selects the box on tick DEBOUNCE_FRAMES and then turns
\* it (SpecTurn).
MaxTurnFrames == 16
\* Points of a polyline given to rdp (SpecRdp).
MaxPolyline == 4
MaxGapFrames == 12
MaxGapChanges == 3
MaxScaleFrames == 14
\* Ticks of a run that enters TRANSFORM on tick DEBOUNCE_FRAMES and goes on
\* with a shape in the hand (SpecTransform).
MaxTransformFrames == 12
\* Points a stroke in progress may hold before the fingertip stops moving.
MaxStroke == 5
\* Shapes the collection may hold before no further shape is created.
MaxShapes == 3

\* ------------------------------------------------------ program constants
\* One unit of a pinch ratio is 1/RatioUnit.
RatioUnit == 100
\* The floats of features.rdp are multiples of 1 / FloatUnit (a double has
\* 52 fraction bits; here 6).
FloatUnit == 64
\* rules.py:7-8, in hundredths.
PINCH_START == 35
PINCH_END == 45
\* rules.py:9-11
DRAW_START_FRAMES == 3
DRAW_END_FRAMES == 3
EXIT_FRAMES == 3
\* controller.py:14-16
STROKE_MIN_STEP == 5
STROKE_MIN_POINTS == 5
STROKE_EPSILON == 4
\* controller.py:33,35
MODE_COOLDOWN_FRAMES == 30
DEBOUNCE_FRAMES == 10
\* main.py:10-11
SCREEN_WIDTH == 1280
SCREEN_HEIGHT == 720
\* shapes.py:7, in hundredths.
SMOOTHING == 35

\* The modes of app.state.modes, as hud.py:14-24 spells them.
Modes == {"IDLE", "CREATE", "TRANSFORM", "DRAW"}

\* Optional[...] values: None, or a value wrapped by Some.
None == << >>
Some(v) == << v >>
Val(o) == o[1]
\* Controller._last_gesture when it is None.
NoGesture == "None"
\* Controller.selected_shape is None; otherwise it is the position of the
\* selected object in Controller.shapes (the collection is never reordered).
NoShape == 0

\* ------------------------------------------------------------- geometry
Abs(x) == IF x < 0 THEN -x ELSE x
Min(a, b) == IF a < b THEN a ELSE b
Max(a, b) == IF a > b THEN a ELSE b

\* The whole part of the square root of n, which lies in lo .. hi.
RECURSIVE SqrtBetween(_, _, _)
SqrtBetween(n, lo, hi) ==
    IF lo >= hi THEN lo
    ELSE IF ((lo + hi + 1) \div 2) * ((lo + hi + 1) \div 2) <= n
         THEN SqrtBetween(n, (lo + hi + 1) \div 2, hi)
         ELSE SqrtBetween(n, lo, ((lo + hi + 1) \div 2) - 1)
\* math.hypot, rounded down to a whole number.
Hypot(dx, dy) == SqrtBetween(dx * dx + dy * dy, 0, Abs(dx) + Abs(dy))

\* features.distance
distance(p1, p2) == Hypot(p1[1] - p2[1], p1[2] - p2[2])

\* features.clamp
clamp(value, min_value, max_value) == Max(min_value, Min(max_value, value))

\* features.normalize_value: value / max(scale, 1e-6), in hundredths.  A
\* scale below one pixel is the 1e-6 branch, which the tracker's whole-pixel
\* hand scale never takes.
normalize_value(value, scale) == (value * RatioUnit) \div Max(scale, 1)

\* features.pinch_ratio
pinch_ratio(thumb_tip, index_tip, hand_scale) ==
    normalize_value(distance(thumb_tip, index_tip), hand_scale)

\* features.angle_degrees: degrees(atan2(dy, dx)), for the axis-parallel
\* finger vectors the model presents.
angle_degrees(p1, p2) ==
    LET dx == p2[1] - p1[1]
        dy == p2[2] - p1[2]
    IN  IF dy = 0 THEN (IF dx >= 0 THEN 0 ELSE 180)
        ELSE IF dx = 0 THEN (IF dy > 0 THEN 90 ELSE -90)
        ELSE IF dx = dy THEN (IF dx > 0 THEN 45 ELSE -135)
        ELSE IF dx = -dy THEN (IF dx > 0 THEN -45 ELSE 135)
        ELSE 0

\* ----------------------------------------------------------------- shapes
\* 1000 * sin of a whole number of degrees in 0 .. 90 (math.sin).
SinTable ==
    <<
       0, 17, 35, 52, 70, 87, 105, 122, 139, 156, 174, 191, 208,
       225, 242, 259, 276, 292, 309, 326, 342, 358, 375, 391, 407, 423,
       438, 454, 469, 485, 500, 515, 530, 545, 559, 574, 588, 602, 616,
       629, 643, 656, 669, 682, 695, 707, 719, 731, 743, 755, 766, 777,
       788, 799, 809, 819, 829, 839, 848, 857, 866, 875, 883, 891, 899,
       906, 914, 921, 927, 934, 940, 946, 951, 956, 961, 966, 970, 974,
       978, 982, 985, 988, 990, 993, 995, 996, 998, 999, 999, 1000, 1000
    >>
\* An angle brought into 0 .. 359.
Mod360(a) == a % 360
Sin1000(a) ==
    LET d == Mod360(a)
    IN  IF d <= 90 THEN SinTable[d + 1]
        ELSE IF d <= 180 THEN SinTable[180 - d + 1]
        ELSE IF d <= 270 THEN -SinTable[d - 180 + 1]
        ELSE -SinTable[360 - d + 1]
Cos1000(a) == Sin1000(a + 90)

\* value * SMOOTHING in fixed point, rounded toward zero.
Smooth(d) ==
    IF d >= 0 THEN (d * SMOOTHING) \div 100 ELSE -(((-d) * SMOOTHING) \div 100)

\* shapes._normalize_angle
normalize_angle(delta) ==
    LET d1 == IF delta > 180 THEN delta - 360 ELSE delta
    IN  IF d1 < -180 THEN d1 + 360 ELSE d1

\* shapes.Shape2D(center, size): __post_init__ sets the targets to the
\* current values, the angle to 0 and is_selected to False.
NewShape2D(center, size) ==
    [kind |-> "Shape2D", center |-> center, size |-> size, angle |-> 0,
     target_center |-> center, target_size |-> size, target_angle |-> 0,
     is_selected |-> FALSE]

\* shapes.PolylineShape(points)
NewPolylineShape(points) ==
    [kind |-> "PolylineShape", points |-> points, is_selected |-> FALSE]

IsShape2D(shape) == shape.kind = "Shape2D"

\* Shape2D.contains_point(point, rotated=True): the point in the box's frame
\* (rotated by -angle when the angle is not 0) against the half extent.
\* Both sides are scaled by 2000: 1000 for the sine table, 2 for size / 2.
contains_point(shape, point) ==
    LET dx == point[1] - shape.center[1]
        dy == point[2] - shape.center[2]
        c  == Cos1000(-shape.angle)
        s  == Sin1000(-shape.angle)
        rx == IF shape.angle # 0 THEN dx * c - dy * s ELSE dx * 1000
        ry == IF shape.angle # 0 THEN dx * s + dy * c ELSE dy * 1000
        half2 == shape.size * 1000
    IN  /\ -half2 <= 2 * rx /\ 2 * rx <= half2
        /\ -half2 <= 2 * ry /\ 2 * ry <= half2

\* Shape2D.update / PolylineShape.update: one step toward the targets.
ShapeUpdate(shape) ==
    IF IsShape2D(shape)
    THEN LET angle_delta == normalize_angle(shape.target_angle - shape.angle)
         IN  [shape EXCEPT
                !.center = << shape.center[1] + Smooth(shape.target_center[1] - shape.center[1]),
                              shape.center[2] + Smooth(shape.target_center[2] - shape.center[2]) >>,
                !.size = shape.size + Smooth(shape.target_size - shape.size),
                !.angle = Mod360(shape.angle + Smooth(angle_delta))]
    ELSE shape

\* --------------------------------------------------- gesture interpreter
\* DebouncedFlag.__init__
NewDebouncedFlag == [on_count |-> 0, off_count |-> 0, is_active |-> FALSE]

\* DebouncedFlag.update with a true input that leaves off_count as it is: an
\* interrupted run of false inputs goes on counting.
DebouncedFlagUpdateKeepsCount(flag, raw_on, on_frames, off_frames) ==
    IF raw_on
    THEN [on_count |-> flag.on_count + 1, off_count |-> flag.off_count,
          is_active |-> IF ~flag.is_active /\ flag.on_count + 1 >= on_frames
                        THEN TRUE ELSE flag.is_active]
    ELSE [on_count |-> 0, off_count |-> flag.off_count + 1,
          is_active |-> IF flag.is_active /\ flag.off_count + 1 >= off_frames
                        THEN FALSE ELSE flag.is_active]

\* DebouncedFlag.update(raw_on) with the thresholds on_frames, off_frames:
\* the flag after the call (update returns its is_active).
DebouncedFlagUpdate(flag, raw_on, on_frames, off_frames) ==
    IF raw_on
    THEN [on_count |-> flag.on_count + 1, off_count |-> 0,
          is_active |-> IF ~flag.is_active /\ flag.on_count + 1 >= on_frames
                        THEN TRUE ELSE flag.is_active]
    ELSE [on_count |-> 0, off_count |-> flag.off_count + 1,
          is_active |-> IF flag.is_active /\ flag.off_count + 1 >= off_frames
                        THEN FALSE ELSE flag.is_active]

\* GestureInterpreter.__init__
NewGestureInterpreter ==
    [is_pinching |-> FALSE, draw_state |-> NewDebouncedFlag,
     exit_state |-> NewDebouncedFlag]

\* GestureInterpreter._finger_up
finger_up(points, tip_idx, pip_idx) == points[tip_idx][2] < points[pip_idx][2]

\* The hysteresis with both comparisons made inclusive.
PinchHysteresisInclusive(is_pinching, ratio) ==
    IF ~is_pinching /\ ratio <= PINCH_START THEN TRUE
    ELSE IF is_pinching /\ ratio >= PINCH_END THEN FALSE
    ELSE is_pinching

\* The pinch hysteresis of GestureInterpreter.compute: _is_pinching after a
\* frame with this ratio.
PinchHysteresis(is_pinching, ratio) ==
    IF ~is_pinching /\ ratio < PINCH_START THEN TRUE
    ELSE IF is_pinching /\ ratio > PINCH_END THEN FALSE
    ELSE is_pinching

\* GestureInterpreter.compute(points, hand_scale): the interpreter after the
\* call (engine) and the gesture set it returns (gestures).
Compute(engine, points, hand_scale) ==
    LET ratio     == pinch_ratio(points[4], points[8], hand_scale)
        pinching  == PinchHysteresis(engine.is_pinching, ratio)
        index_up  == finger_up(points, 8, 6)
        middle_up == finger_up(points, 12, 10)
        ring_up   == finger_up(points, 16, 14)
        pinky_up  == finger_up(points, 20, 18)
        thumb_open == points[4][1] > points[3][1]
        is_three_finger == index_up /\ middle_up /\ ring_up /\ ~pinky_up
        is_draw_gesture == is_three_finger
        draw == DebouncedFlagUpdate(engine.draw_state, is_draw_gesture,
                                    DRAW_START_FRAMES, DRAW_END_FRAMES)
        is_fist == ~(index_up \/ middle_up \/ ring_up \/ pinky_up)
        exit == DebouncedFlagUpdate(engine.exit_state, is_fist,
                                    EXIT_FRAMES, EXIT_FRAMES)
    IN  [engine |-> [is_pinching |-> pinching, draw_state |-> draw,
                     exit_state |-> exit],
         gestures |->
            [pinch_ratio |-> ratio,
             is_pinching |-> pinching,
             is_two_finger_point |-> index_up /\ middle_up /\ ~ring_up /\ ~pinky_up,
             is_open_palm |-> index_up /\ middle_up /\ ring_up /\ pinky_up,
             is_pointing |-> index_up /\ ~middle_up /\ ~ring_up /\ ~pinky_up,
             thumb_open |-> thumb_open,
             is_three_finger |-> is_three_finger,
             is_thumb_up |-> thumb_open /\ is_fist,
             is_draw_gesture |-> is_draw_gesture,
             is_draw_active |-> draw.is_active,
             is_exit_gesture |-> exit.is_active]]

\* ------------------------------------------------- stroke simplification
\* features._point_segment_distance, squared, in FloatUnit-ths of a pixel:
\* the distances are only ever compared, and squaring keeps the order of
\* non-negative numbers.  The code computes on floats: t, the quotient of
\* two floats, is rounded to the nearest representable number, here the
\* nearest multiple of 1 / FloatUnit, before it is clamped to [0, 1] and the
\* projection start + t * (dx, dy) is taken.
point_segment_distance(point, start, end) ==
    LET dx == end[1] - start[1]
        dy == end[2] - start[2]
        px == point[1] - start[1]
        py == point[2] - start[2]
        len2 == dx * dx + dy * dy
        dot == px * dx + py * dy
    IN  IF dx = 0 /\ dy = 0
        THEN px * px * FloatUnit * FloatUnit + py * py * FloatUnit * FloatUnit
        ELSE LET t == clamp((2 * dot * FloatUnit + len2) \div (2 * len2), 0, FloatUnit)
                 off_x == px * FloatUnit - t * dx
                 off_y == py * FloatUnit - t * dy
             IN  off_x * off_x + off_y * off_y

\* The index rdp's loop ends with: the first interior point (2 .. n-1, one
\* based) at the greatest distance from the chord.  max_dist starts at -1,
\* below every distance, and is replaced only by a strictly greater one.
FarthestIndex(points) ==
    LET n == Len(points)
        d(i) == point_segment_distance(points[i], points[1], points[n])
    IN  CHOOSE i \in 2 .. (n - 1) :
            /\ \A j \in 2 .. (n - 1) : d(j) <= d(i)
            /\ \A j \in 2 .. (i - 1) : d(i) > d(j)

RECURSIVE rdp(_, _)
\* rdp with the point shared by the two halves kept twice.
rdpKeepsSharedPoint(points, epsilon) ==
    IF Len(points) < 3 THEN points
    ELSE LET n == Len(points)
             idx == FarthestIndex(points)
             max_dist == point_segment_distance(points[idx], points[1], points[n])
         IN  IF max_dist > epsilon * epsilon
             THEN rdp(SubSeq(points, 1, idx), epsilon) \o rdp(SubSeq(points, idx, n), epsilon)
             ELSE << points[1], points[n] >>

\* features.rdp(points, epsilon), epsilon in FloatUnit-ths of a pixel.
rdp(points, epsilon) ==
    IF Len(points) < 3 THEN points
    ELSE LET n == Len(points)
             idx == FarthestIndex(points)
             max_dist == point_segment_distance(points[idx], points[1], points[n])
         IN  IF max_dist > epsilon * epsilon
             THEN LET left == rdp(SubSeq(points, 1, idx), epsilon)
                      right == rdp(SubSeq(points, idx, n), epsilon)
                  IN  SubSeq(left, 1, Len(left) - 1) \o right
             ELSE << points[1], points[n] >>

\* ------------------------------------------------------------ controller
\* Controller.__init__(screen_width, screen_height)
NewController(screen_width, screen_height) ==
    [mode |-> "IDLE",
     shapes |-> << NewShape2D(<< screen_width \div 2, screen_height \div 2 >>, 150) >>,
     selected_shape |-> NoShape,
     last_gesture |-> NoGesture,
     gesture_frames |-> 0,
     frame_index |-> 0,
     last_mode_switch_frame |-> -MODE_COOLDOWN_FRAMES,
     grab_offset |-> None,
     base_size |-> None,
     base_pinch |-> None,
     base_shape_angle |-> None,
     base_finger_angle |-> None,
     current_stroke |-> << >>,
     is_drawing |-> FALSE]

\* _deselect that forgets to clear base_size.
DeselectKeepsBaseSize(c) ==
    [c EXCEPT
        !.shapes = [i \in 1 .. Len(c.shapes) |->
                        IF i = c.selected_shape
                        THEN [c.shapes[i] EXCEPT !.is_selected = FALSE]
                        ELSE c.shapes[i]],
        !.selected_shape = NoShape,
        !.grab_offset = None,
        !.base_pinch = None,
        !.base_shape_angle = None,
        !.base_finger_angle = None]

\* Controller._deselect
Deselect(c) ==
    [c EXCEPT
        !.shapes = [i \in 1 .. Len(c.shapes) |->
                        IF i = c.selected_shape
                        THEN [c.shapes[i] EXCEPT !.is_selected = FALSE]
                        ELSE c.shapes[i]],
        !.selected_shape = NoShape,
        !.grab_offset = None,
        !.base_size = None,
        !.base_pinch = None,
        !.base_shape_angle = None,
        !.base_finger_angle = None]

\* _end_stroke that also discards a stroke of exactly STROKE_MIN_POINTS points.
EndStrokeDiscardsFive(c) ==
    IF c.current_stroke = << >> THEN [c EXCEPT !.is_drawing = FALSE]
    ELSE LET points == c.current_stroke
             c1 == [c EXCEPT !.current_stroke = << >>, !.is_drawing = FALSE]
         IN  IF Len(points) <= STROKE_MIN_POINTS THEN [c1 EXCEPT !.mode = "IDLE"]
             ELSE [c1 EXCEPT
                     !.shapes = Append(c1.shapes,
                                       NewPolylineShape(rdp(points, STROKE_EPSILON * FloatUnit))),
                     !.mode = "IDLE"]

\* _end_stroke that leaves the mode alone when it drops a short stroke.
EndStrokeDropsInPlace(c) ==
    IF c.current_stroke = << >> THEN [c EXCEPT !.is_drawing = FALSE]
    ELSE LET points == c.current_stroke
             c1 == [c EXCEPT !.current_stroke = << >>, !.is_drawing = FALSE]
         IN  IF Len(points) < STROKE_MIN_POINTS THEN c1
             ELSE [c1 EXCEPT
                     !.shapes = Append(c1.shapes,
                                       NewPolylineShape(rdp(points, STROKE_EPSILON * FloatUnit))),
                     !.mode = "IDLE"]

\* Controller._end_stroke
EndStroke(c) ==
    IF c.current_stroke = << >> THEN [c EXCEPT !.is_drawing = FALSE]
    ELSE LET points == c.current_stroke
             c1 == [c EXCEPT !.current_stroke = << >>, !.is_drawing = FALSE]
         IN  IF Len(points) < STROKE_MIN_POINTS THEN [c1 EXCEPT !.mode = "IDLE"]
             ELSE [c1 EXCEPT
                     !.shapes = Append(c1.shapes,
                                       NewPolylineShape(rdp(points, STROKE_EPSILON * FloatUnit))),
                     !.mode = "IDLE"]

\* _toggle_mode that always enters the target mode, active or not.
ToggleModeNoReturn(c, target_mode) ==
    LET c1 == [c EXCEPT !.mode = target_mode]
        c2 == IF c1.mode # "TRANSFORM" THEN Deselect(c1) ELSE c1
    IN  IF c2.mode # "DRAW" THEN EndStroke(c2) ELSE c2

\* _toggle_mode that leaves the selection alone.
ToggleModeKeepsSelection(c, target_mode) ==
    LET c1 == [c EXCEPT !.mode = IF c.mode = target_mode THEN "IDLE" ELSE target_mode]
    IN  IF c1.mode # "DRAW" THEN EndStroke(c1) ELSE c1

\* Controller._toggle_mode(target_mode)
ToggleMode(c, target_mode) ==
    LET c1 == [c EXCEPT !.mode = IF c.mode = target_mode THEN "IDLE" ELSE target_mode]
        c2 == IF c1.mode # "TRANSFORM" THEN Deselect(c1) ELSE c1
    IN  IF c2.mode # "DRAW" THEN EndStroke(c2) ELSE c2

\* The label _maybe_switch_mode computes from the gesture set (lines 73-79).
PersistentGesture(gestures) ==
    IF gestures.is_open_palm THEN "open_palm"
    ELSE IF gestures.is_pointing THEN "pointing"
    ELSE IF gestures.is_draw_gesture THEN "draw"
    ELSE NoGesture

\* The mode a label asks for (lines 93-98).
TargetMode(persistent) ==
    IF persistent = "open_palm" THEN "CREATE"
    ELSE IF persistent = "pointing" THEN "TRANSFORM"
    ELSE "DRAW"

\* The gate without the cooldown.
SwitchGateNoCooldown(c) ==
    c.gesture_frames >= DEBOUNCE_FRAMES

\* The double gate with a hold of more than DEBOUNCE_FRAMES frames.
SwitchGateOneFrameLate(c) ==
    /\ c.gesture_frames > DEBOUNCE_FRAMES
    /\ c.frame_index - c.last_mode_switch_frame >= MODE_COOLDOWN_FRAMES

\* The double gate of _maybe_switch_mode (lines 89-92).
SwitchGate(c) ==
    /\ c.gesture_frames >= DEBOUNCE_FRAMES
    /\ c.frame_index - c.last_mode_switch_frame >= MODE_COOLDOWN_FRAMES

\* _maybe_switch_mode that goes on counting when the label changes.
MaybeSwitchModeNoRestart(c, gestures) ==
    LET persistent == PersistentGesture(gestures)
        c1 == IF persistent # c.last_gesture
              THEN [c EXCEPT !.last_gesture = persistent]
              ELSE c
        c2 == [c1 EXCEPT !.gesture_frames = @ + 1]
    IN  IF persistent = NoGesture THEN c1
        ELSE IF SwitchGate(c2)
             THEN [ToggleMode(c2, TargetMode(persistent)) EXCEPT
                     !.last_mode_switch_frame = c2.frame_index,
                     !.gesture_frames = 0]
             ELSE c2

\* Controller._maybe_switch_mode(gestures)
MaybeSwitchMode(c, gestures) ==
    LET persistent == PersistentGesture(gestures)
        c1 == IF persistent # c.last_gesture
              THEN [c EXCEPT !.last_gesture = persistent, !.gesture_frames = 0]
              ELSE c
        c2 == [c1 EXCEPT !.gesture_frames = @ + 1]
    IN  IF persistent = NoGesture THEN c1
        ELSE IF SwitchGate(c2)
             THEN [ToggleMode(c2, TargetMode(persistent)) EXCEPT
                     !.last_mode_switch_frame = c2.frame_index,
                     !.gesture_frames = 0]
             ELSE c2

\* _handle_create_mode that puts the new box under all the others.
HandleCreateModeInsertsFirst(c, gestures, points) ==
    IF ~gestures.is_pinching THEN c
    ELSE LET index_tip == points[8]
         IN  IF \E i \in 1 .. Len(c.shapes) :
                    /\ IsShape2D(c.shapes[i])
                    /\ distance(c.shapes[i].center, index_tip) < c.shapes[i].size
             THEN c
             ELSE [c EXCEPT !.shapes = << NewShape2D(index_tip, 100) >> \o c.shapes,
                            !.mode = "IDLE"]

\* _handle_create_mode without the test for a box that covers the fingertip.
HandleCreateModeNoCover(c, gestures, points) ==
    IF ~gestures.is_pinching THEN c
    ELSE [c EXCEPT !.shapes = Append(c.shapes, NewShape2D(points[8], 100)),
                   !.mode = "IDLE"]

\* Controller._handle_create_mode(gestures, points)
HandleCreateMode(c, gestures, points) ==
    IF ~gestures.is_pinching THEN c
    ELSE LET index_tip == points[8]
         IN  IF \E i \in 1 .. Len(c.shapes) :
                    /\ IsShape2D(c.shapes[i])
                    /\ distance(c.shapes[i].center, index_tip) < c.shapes[i].size
             THEN c
             ELSE [c EXCEPT !.shapes = Append(c.shapes, NewShape2D(index_tip, 100)),
                            !.mode = "IDLE"]

\* Controller._select_shape(shape, points, gestures); shape is shapes[idx].
SelectShape(c, idx, points, gestures) ==
    LET shape == c.shapes[idx]
        anchor == points[9]
    IN  [c EXCEPT
            !.shapes = [i \in 1 .. Len(c.shapes) |->
                            [c.shapes[i] EXCEPT !.is_selected = (i = idx)]],
            !.selected_shape = idx,
            !.grab_offset = Some(<< shape.center[1] - anchor[1],
                                    shape.center[2] - anchor[2] >>),
            !.base_size = Some(shape.size),
            !.base_pinch = Some(gestures.pinch_ratio),
            !.base_shape_angle = Some(shape.angle),
            !.base_finger_angle = Some(angle_degrees(points[8], points[12]))]

\* _apply_transform that scales from the size the shape has now.
ApplyTransformLatestSize(c, gestures, points) ==
    LET sel == c.selected_shape
    IN  IF sel = NoShape \/ ~IsShape2D(c.shapes[sel]) THEN c
        ELSE
        LET shape == c.shapes[sel]
            anchor == points[9]
            offset == IF c.grab_offset # None THEN Val(c.grab_offset) ELSE << 0, 0 >>
            target_center == << anchor[1] + offset[1], anchor[2] + offset[2] >>
            ratio == gestures.pinch_ratio
            scales == c.base_pinch # None /\ Val(c.base_pinch) # 0 /\ ratio > 0
            target_size ==
                IF scales
                THEN clamp((shape.size * Val(c.base_pinch)) \div ratio, 20, 600)
                ELSE shape.target_size
            finger_angle == angle_degrees(points[8], points[12])
            two == gestures.is_two_finger_point
            base_finger == IF two
                           THEN (IF c.base_finger_angle = None THEN Some(finger_angle)
                                 ELSE c.base_finger_angle)
                           ELSE None
            base_shape == IF two
                          THEN (IF c.base_finger_angle = None THEN Some(shape.angle)
                                ELSE c.base_shape_angle)
                          ELSE Some(shape.angle)
            target_angle == IF two
                            THEN Val(base_shape) + (finger_angle - Val(base_finger))
                            ELSE shape.target_angle
        IN  [c EXCEPT
                !.shapes[sel] = [shape EXCEPT !.target_center = target_center,
                                              !.target_size = target_size,
                                              !.target_angle = target_angle],
                !.base_finger_angle = base_finger,
                !.base_shape_angle = base_shape]

\* _apply_transform that follows the index fingertip, not the anchor.
ApplyTransformFromTip(c, gestures, points) ==
    LET sel == c.selected_shape
    IN  IF sel = NoShape \/ ~IsShape2D(c.shapes[sel]) THEN c
        ELSE
        LET shape == c.shapes[sel]
            anchor == points[8]
            offset == IF c.grab_offset # None THEN Val(c.grab_offset) ELSE << 0, 0 >>
            target_center == << anchor[1] + offset[1], anchor[2] + offset[2] >>
            ratio == gestures.pinch_ratio
            scales == c.base_pinch # None /\ Val(c.base_pinch) # 0 /\ ratio > 0
            target_size ==
                IF scales
                THEN clamp((Val(c.base_size) * Val(c.base_pinch)) \div ratio, 20, 600)
                ELSE shape.target_size
            finger_angle == angle_degrees(points[8], points[12])
            two == gestures.is_two_finger_point
            base_finger == IF two
                           THEN (IF c.base_finger_angle = None THEN Some(finger_angle)
                                 ELSE c.base_finger_angle)
                           ELSE None
            base_shape == IF two
                          THEN (IF c.base_finger_angle = None THEN Some(shape.angle)
                                ELSE c.base_shape_angle)
                          ELSE Some(shape.angle)
            target_angle == IF two
                            THEN Val(base_shape) + (finger_angle - Val(base_finger))
                            ELSE shape.target_angle
        IN  [c EXCEPT
                !.shapes[sel] = [shape EXCEPT !.target_center = target_center,
                                              !.target_size = target_size,
                                              !.target_angle = target_angle],
                !.base_finger_angle = base_finger,
                !.base_shape_angle = base_shape]

\* _apply_transform that turns the shape with or without two fingers.
ApplyTransformAlwaysTurns(c, gestures, points) ==
    LET sel == c.selected_shape
    IN  IF sel = NoShape \/ ~IsShape2D(c.shapes[sel]) THEN c
        ELSE
        LET shape == c.shapes[sel]
            anchor == points[9]
            offset == IF c.grab_offset # None THEN Val(c.grab_offset) ELSE << 0, 0 >>
            target_center == << anchor[1] + offset[1], anchor[2] + offset[2] >>
            ratio == gestures.pinch_ratio
            scales == c.base_pinch # None /\ Val(c.base_pinch) # 0 /\ ratio > 0
            target_size ==
                IF scales
                THEN clamp((Val(c.base_size) * Val(c.base_pinch)) \div ratio, 20, 600)
                ELSE shape.target_size
            finger_angle == angle_degrees(points[8], points[12])
            two == gestures.is_two_finger_point
            base_finger == IF two
                           THEN (IF c.base_finger_angle = None THEN Some(finger_angle)
                                 ELSE c.base_finger_angle)
                           ELSE None
            base_shape == IF two
                          THEN (IF c.base_finger_angle = None THEN Some(shape.angle)
                                ELSE c.base_shape_angle)
                          ELSE Some(shape.angle)
            target_angle == IF two
                            THEN Val(base_shape) + (finger_angle - Val(base_finger))
                            ELSE Val(base_shape) + finger_angle
        IN  [c EXCEPT
                !.shapes[sel] = [shape EXCEPT !.target_center = target_center,
                                              !.target_size = target_size,
                                              !.target_angle = target_angle],
                !.base_finger_angle = base_finger,
                !.base_shape_angle = base_shape]

\* _apply_transform that keeps the finger baseline when two-finger-point is
\* released.
ApplyTransformKeepsFingerBaseline(c, gestures, points) ==
    LET sel == c.selected_shape
    IN  IF sel = NoShape \/ ~IsShape2D(c.shapes[sel]) THEN c
        ELSE
        LET shape == c.shapes[sel]
            anchor == points[9]
            offset == IF c.grab_offset # None THEN Val(c.grab_offset) ELSE << 0, 0 >>
            target_center == << anchor[1] + offset[1], anchor[2] + offset[2] >>
            ratio == gestures.pinch_ratio
            scales == c.base_pinch # None /\ Val(c.base_pinch) # 0 /\ ratio > 0
            target_size ==
                IF scales
                THEN clamp((Val(c.base_size) * Val(c.base_pinch)) \div ratio, 20, 600)
                ELSE shape.target_size
            finger_angle == angle_degrees(points[8], points[12])
            two == gestures.is_two_finger_point
            base_finger == IF two
                           THEN (IF c.base_finger_angle = None THEN Some(finger_angle)
                                 ELSE c.base_finger_angle)
                           ELSE c.base_finger_angle
            base_shape == IF two
                          THEN (IF c.base_finger_angle = None THEN Some(shape.angle)
                                ELSE c.base_shape_angle)
                          ELSE Some(shape.angle)
            target_angle == IF two
                            THEN Val(base_shape) + (finger_angle - Val(base_finger))
                            ELSE shape.target_angle
        IN  [c EXCEPT
                !.shapes[sel] = [shape EXCEPT !.target_center = target_center,
                                              !.target_size = target_size,
                                              !.target_angle = target_angle],
                !.base_finger_angle = base_finger,
                !.base_shape_angle = base_shape]

\* _apply_transform that sets the scaled size without clamping it.
ApplyTransformUnclamped(c, gestures, points) ==
    LET sel == c.selected_shape
    IN  IF sel = NoShape \/ ~IsShape2D(c.shapes[sel]) THEN c
        ELSE
        LET shape == c.shapes[sel]
            anchor == points[9]
            offset == IF c.grab_offset # None THEN Val(c.grab_offset) ELSE << 0, 0 >>
            target_center == << anchor[1] + offset[1], anchor[2] + offset[2] >>
            ratio == gestures.pinch_ratio
            scales == c.base_pinch # None /\ Val(c.base_pinch) # 0 /\ ratio > 0
            target_size ==
                IF scales
                THEN (Val(c.base_size) * Val(c.base_pinch)) \div ratio
                ELSE shape.target_size
            finger_angle == angle_degrees(points[8], points[12])
            two == gestures.is_two_finger_point
            base_finger == IF two
                           THEN (IF c.base_finger_angle = None THEN Some(finger_angle)
                                 ELSE c.base_finger_angle)
                           ELSE None
            base_shape == IF two
                          THEN (IF c.base_finger_angle = None THEN Some(shape.angle)
                                ELSE c.base_shape_angle)
                          ELSE Some(shape.angle)
            target_angle == IF two
                            THEN Val(base_shape) + (finger_angle - Val(base_finger))
                            ELSE shape.target_angle
        IN  [c EXCEPT
                !.shapes[sel] = [shape EXCEPT !.target_center = target_center,
                                              !.target_size = target_size,
                                              !.target_angle = target_angle],
                !.base_finger_angle = base_finger,
                !.base_shape_angle = base_shape]

\* Controller._apply_transform(gestures, points)
ApplyTransform(c, gestures, points) ==
    LET sel == c.selected_shape
    IN  IF sel = NoShape \/ ~IsShape2D(c.shapes[sel]) THEN c
        ELSE
        LET shape == c.shapes[sel]
            anchor == points[9]
            offset == IF c.grab_offset # None THEN Val(c.grab_offset) ELSE << 0, 0 >>
            target_center == << anchor[1] + offset[1], anchor[2] + offset[2] >>
            ratio == gestures.pinch_ratio
            scales == c.base_pinch # None /\ Val(c.base_pinch) # 0 /\ ratio > 0
            target_size ==
                IF scales
                THEN clamp((Val(c.base_size) * Val(c.base_pinch)) \div ratio, 20, 600)
                ELSE shape.target_size
            finger_angle == angle_degrees(points[8], points[12])
            two == gestures.is_two_finger_point
            base_finger == IF two
                           THEN (IF c.base_finger_angle = None THEN Some(finger_angle)
                                 ELSE c.base_finger_angle)
                           ELSE None
            base_shape == IF two
                          THEN (IF c.base_finger_angle = None THEN Some(shape.angle)
                                ELSE c.base_shape_angle)
                          ELSE Some(shape.angle)
            target_angle == IF two
                            THEN Val(base_shape) + (finger_angle - Val(base_finger))
                            ELSE shape.target_angle
        IN  [c EXCEPT
                !.shapes[sel] = [shape EXCEPT !.target_center = target_center,
                                              !.target_size = target_size,
                                              !.target_angle = target_angle],
                !.base_finger_angle = base_finger,
                !.base_shape_angle = base_shape]

\* The loop of _handle_transform_mode run over self.shapes, not reversed:
\* the bottommost box under the fingertip.
BottommostHit(c, index_tip) ==
    LET hits == {i \in 1 .. Len(c.shapes) :
                    IsShape2D(c.shapes[i]) /\ contains_point(c.shapes[i], index_tip)}
    IN  IF hits = {} THEN NoShape
        ELSE CHOOSE i \in hits : \A j \in hits : i <= j

\* The topmost box under the fingertip: the first hit of the loop over
\* reversed(self.shapes) in _handle_transform_mode, NoShape if there is none.
TopmostHit(c, index_tip) ==
    LET hits == {i \in 1 .. Len(c.shapes) :
                    IsShape2D(c.shapes[i]) /\ contains_point(c.shapes[i], index_tip)}
    IN  IF hits = {} THEN NoShape
        ELSE CHOOSE i \in hits : \A j \in hits : j <= i

\* _handle_transform_mode that keeps the selection when the hand lets go.
HandleTransformModeKeeps(c, gestures, points) ==
    IF c.selected_shape = NoShape
    THEN IF ~gestures.is_pinching THEN c
         ELSE LET hit == TopmostHit(c, points[8])
              IN  IF hit = NoShape THEN c ELSE SelectShape(c, hit, points, gestures)
    ELSE IF ~gestures.is_pinching /\ ~gestures.is_two_finger_point
         THEN c
         ELSE ApplyTransform(c, gestures, points)

\* Controller._handle_transform_mode(gestures, points)
HandleTransformMode(c, gestures, points) ==
    IF c.selected_shape = NoShape
    THEN IF ~gestures.is_pinching THEN c
         ELSE LET hit == TopmostHit(c, points[8])
              IN  IF hit = NoShape THEN c ELSE SelectShape(c, hit, points, gestures)
    ELSE IF ~gestures.is_pinching /\ ~gestures.is_two_finger_point
         THEN Deselect(c)
         ELSE ApplyTransform(c, gestures, points)

\* Controller._handle_draw_mode(gestures, points)
HandleDrawMode(c, gestures, points) ==
    LET draw_active == gestures.is_draw_gesture
        index_tip == points[8]
    IN  IF draw_active /\ ~c.is_drawing
        THEN [c EXCEPT !.is_drawing = TRUE, !.current_stroke = << index_tip >>]
        ELSE IF draw_active /\ c.is_drawing
        THEN IF c.current_stroke # << >>
                /\ distance(index_tip, c.current_stroke[Len(c.current_stroke)])
                       >= STROKE_MIN_STEP
             THEN [c EXCEPT !.current_stroke = Append(@, index_tip)]
             ELSE c
        ELSE IF c.is_drawing /\ ~draw_active THEN EndStroke(c)
        ELSE c

\* The per-mode dispatch of Controller.update (lines 55-62).
HandleMode(c, gestures, points) ==
    IF c.mode = "IDLE" THEN Deselect(c)
    ELSE IF c.mode = "CREATE" THEN HandleCreateMode(c, gestures, points)
    ELSE IF c.mode = "TRANSFORM" THEN HandleTransformMode(c, gestures, points)
    ELSE HandleDrawMode(c, gestures, points)

\* update that runs the handler of the mode the tick started in and
\* evaluates the switch after it.
UpdateHandlesBeforeSwitch(c, gestures, points) ==
    LET c1 == [c EXCEPT !.frame_index = @ + 1]
    IN  IF gestures = None \/ points = None THEN c1
        ELSE MaybeSwitchMode(HandleMode(c1, Val(gestures), Val(points)), Val(gestures))

\* update that lets go of the selection on a tick with no hand.
UpdateReleasesWithoutHand(c, gestures, points) ==
    LET c1 == [c EXCEPT !.frame_index = @ + 1]
    IN  IF gestures = None \/ points = None THEN Deselect(c1)
        ELSE HandleMode(MaybeSwitchMode(c1, Val(gestures)), Val(gestures), Val(points))

\* Controller.update(gestures, points); both are None on a tick with no hand.
Update(c, gestures, points) ==
    LET c1 == [c EXCEPT !.frame_index = @ + 1]
    IN  IF gestures = None \/ points = None THEN c1
        ELSE HandleMode(MaybeSwitchMode(c1, Val(gestures)), Val(gestures), Val(points))

\* The state change of Controller.render: update() of every shape (the
\* drawing itself changes nothing).
Render(c) ==
    [c EXCEPT !.shapes = [i \in 1 .. Len(c.shapes) |-> ShapeUpdate(c.shapes[i])]]

\* ------------------------------------------------------------ frame loop
VARIABLES
    gesture_engine,   \* main.py:20, the GestureInterpreter
    controller,       \* main.py:21, the Controller
    pose,             \* the hand the camera saw on the last frame
    budget,           \* how much of the bounds of the model the run has used
    obs,              \* what the last frame computed on its way
    hist              \* what the frames so far computed

vars == << gesture_engine, controller, pose, budget, obs, hist >>

\* The index fingertips the tracker reports: inside the initial box; clear
\* of every box; STROKE_MIN_STEP away from the second.
TipInBox == << 640, 360 >>
TipClear == << 640, 520 >>
TipStep == << 643, 524 >>
Tips == { TipInBox, TipClear, TipStep }
\* Which of index, middle, ring, pinky are up.
OpenPalm == << TRUE, TRUE, TRUE, TRUE >>
Pointing == << TRUE, FALSE, FALSE, FALSE >>
ThreeFinger == << TRUE, TRUE, TRUE, FALSE >>
TwoFinger == << TRUE, TRUE, FALSE, FALSE >>
Fist == << FALSE, FALSE, FALSE, FALSE >>
PinkyOnly == << FALSE, FALSE, FALSE, TRUE >>
\* The hands the tracker reports: a pose and the vector from the index tip
\* to the middle tip (two fingers point right or down).
Hands == { [pose |-> p, vec |-> << 10, 0 >>] :
               p \in { OpenPalm, Pointing, ThreeFinger, TwoFinger, Fist } }
         \cup { [pose |-> TwoFinger, vec |-> << 0, 10 >>] }
\* No hand in the frame (hand_tracking.py:58-60).
NoHand == [pose |-> << >>, vec |-> << >>]
\* Thumb tip to index tip, in pixels.
PinchDistances == { 30, 60 }
\* Wrist to index knuckle, in pixels (hand_tracking.py:64).
HandScales == { 100 }

\* A joint that makes finger_up of the tip true (up) or false.
Joint(tip, up) == << tip[1], IF up THEN tip[2] + 10 ELSE tip[2] - 10 >>

\* The 21 keypoints (0 .. 20) of a hand with the index tip at tip, the
\* fingers of pose up, the thumb tip d pixels from the index tip and the
\* middle tip at tip + vec.
HandPoints(tip, fingers, d, vec) ==
    LET middle == << tip[1] + vec[1], tip[2] + vec[2] >>
        ring == << tip[1] + 20, tip[2] >>
        pinky == << tip[1] + 30, tip[2] >>
        thumb == << tip[1] - d, tip[2] >>
        palm == << tip[1], tip[2] + 40 >>
    IN  [i \in 0 .. 20 |->
            CASE i = 8 -> tip
              [] i = 6 -> Joint(tip, fingers[1])
              [] i = 12 -> middle
              [] i = 10 -> Joint(middle, fingers[2])
              [] i = 16 -> ring
              [] i = 14 -> Joint(ring, fingers[3])
              [] i = 20 -> pinky
              [] i = 18 -> Joint(pinky, fingers[4])
              [] i = 4 -> thumb
              [] i = 3 -> << thumb[1] - 5, thumb[2] >>
              [] OTHER -> palm]

\* ---- what a frame leaves for the properties to read
\* The controller between _maybe_switch_mode and the per-mode handler
\* (controller.py:53-55).  A pose-based switch fired on this tick exactly
\* when _last_mode_switch_frame is this tick (controller.py:99).
MidView(m) ==
    [mode |-> m.mode,
     selected_shape |-> m.selected_shape,
     is_drawing |-> m.is_drawing,
     stroke_len |-> Len(m.current_stroke),
     n_shapes |-> Len(m.shapes),
     fired |-> m.last_mode_switch_frame = m.frame_index]

\* The first line of Controller.update.
CountFrame(c) == [c EXCEPT !.frame_index = @ + 1]

\* The last n entries of a sequence.
LastN(seq, n) == IF Len(seq) <= n THEN seq ELSE SubSeq(seq, Len(seq) - n + 1, Len(seq))

\* The boolean signals of a gesture set (all of it but pinch_ratio).
Signals(gestures) ==
    [k \in DOMAIN gestures \ {"pinch_ratio"} |-> gestures[k]]

\* Of a frame: whether it had a hand; the mode update started in; the
\* signals compute returned; the
\* pinch ratio and the index fingertip, when the per-mode handler that ran
\* reads them (the IDLE branch of update reads neither); the controller
\* after _maybe_switch_mode.
NewObs ==
    [hand |-> FALSE, start_mode |-> "IDLE", gestures |-> None, pinch_ratio |-> None,
     index_tip |-> None,
     mid |-> MidView(NewController(SCREEN_WIDTH, SCREEN_HEIGHT))]

NewHist ==
    [labels |-> << >>, switches |-> << >>, last_exit |-> 0,
     raw_draw |-> << >>, raw_fist |-> << >>, hand_run |-> 0]

\* The history after one more compute call on a hand with these fingers up:
\* the raw inputs of the two debounced flags, the last three of each.
HistOfCompute(h, fingers) ==
    [h EXCEPT
        !.raw_draw = LastN(Append(@, fingers[1] /\ fingers[2] /\ fingers[3] /\ ~fingers[4]),
                           DRAW_START_FRAMES),
        !.raw_fist = LastN(Append(@, ~fingers[1] /\ ~fingers[2] /\ ~fingers[3] /\ ~fingers[4]),
                           EXIT_FRAMES)]

\* The history after one more Controller.update with a hand: the label and
\* whether a switch fired, for the last DEBOUNCE_FRAMES hand ticks; the
\* ticks of the switches so far; the last tick whose is_exit_gesture was
\* true; how many ticks in a row had a hand, up to DEBOUNCE_FRAMES.
HistOfUpdate(h, gestures, m) ==
    [h EXCEPT
        !.labels = LastN(Append(@, [label |-> PersistentGesture(gestures),
                                    fired |-> MidView(m).fired]),
                         DEBOUNCE_FRAMES),
        !.switches = IF MidView(m).fired THEN Append(@, m.frame_index) ELSE @,
        !.last_exit = IF gestures.is_exit_gesture THEN m.frame_index ELSE @,
        !.hand_run = IF @ < DEBOUNCE_FRAMES THEN @ + 1 ELSE @]

\* The history after a tick without a hand: the run of hand ticks is over.
HistOfNoHand(h) == [h EXCEPT !.hand_run = 0]

NewBudget == [pose_changes |-> 0, grab_ticks |-> 0, calls |-> 0]

\* The budget after a frame that shows hand and leaves the controller as c.
BudgetOfFrame(b, hand, c) ==
    [b EXCEPT
        !.pose_changes = IF hand # pose THEN @ + 1 ELSE @,
        !.grab_ticks = IF c.selected_shape # NoShape THEN @ + 1 ELSE @]

\* What a tick of the loop leaves behind is within the bounds of the model.
WithinBounds(c, b, max_frames, max_changes, max_grab) ==
    /\ c.frame_index <= max_frames
    /\ b.pose_changes <= max_changes
    /\ b.grab_ticks <= max_grab
    /\ Len(c.shapes) <= MaxShapes
    /\ Len(c.current_stroke) <= MaxStroke

Init ==
    /\ gesture_engine = NewGestureInterpreter
    /\ controller = NewController(SCREEN_WIDTH, SCREEN_HEIGHT)
    /\ pose = NoHand
    /\ budget = NewBudget
    /\ obs = NewObs
    /\ hist = NewHist

\* main.py:32-41 for a frame with a hand: compute, update, render.
HandStep(tip, hand, d, hand_scale, max_frames, max_changes, max_grab) ==
    /\ controller.frame_index < max_frames
    /\ (hand # pose => budget.pose_changes < max_changes)
    /\ \E points \in { HandPoints(tip, hand.pose, d, hand.vec) } :
       \E r \in { Compute(gesture_engine, points, hand_scale) } :
       \E c \in { Render(Update(controller, Some(r.gestures), Some(points))) } :
       \E m \in { MaybeSwitchMode(CountFrame(controller), r.gestures) } :
       \E b \in { BudgetOfFrame(budget, hand, c) } :
            /\ WithinBounds(c, b, max_frames, max_changes, max_grab)
            /\ gesture_engine' = r.engine
            /\ controller' = c
            /\ pose' = hand
            /\ budget' = b
            /\ obs' = [hand |-> TRUE, start_mode |-> controller.mode,
                       gestures |-> Some(Signals(r.gestures)),
                       pinch_ratio |-> IF m.mode = "IDLE" THEN None
                                       ELSE Some(r.gestures.pinch_ratio),
                       index_tip |-> IF m.mode = "IDLE" THEN None ELSE Some(tip),
                       mid |-> MidView(m)]
            /\ hist' = HistOfUpdate(HistOfCompute(hist, hand.pose), r.gestures, m)

\* main.py:32-41 for a frame with no hand: update(None, None), render.
NoHandStep(max_frames, max_changes, max_grab) ==
    /\ controller.frame_index < max_frames
    /\ (NoHand # pose => budget.pose_changes < max_changes)
    /\ \E c \in { Render(Update(controller, None, None)) } :
       \E b \in { BudgetOfFrame(budget, NoHand, c) } :
            /\ WithinBounds(c, b, max_frames, max_changes, max_grab)
            /\ controller' = c
            /\ pose' = NoHand
            /\ budget' = b
            /\ obs' = [hand |-> FALSE, start_mode |-> controller.mode,
                       gestures |-> None, pinch_ratio |-> None, index_tip |-> None,
                       mid |-> [MidView(c) EXCEPT !.fired = FALSE]]
            /\ hist' = HistOfNoHand(hist)
            /\ UNCHANGED gesture_engine

\* ---- the loop with a hand that changes its pose a few times
HandFrame ==
    \E tip \in Tips, hand \in Hands, d \in PinchDistances, hand_scale \in HandScales :
        HandStep(tip, hand, d, hand_scale, MaxFrames, MaxPoseChanges, MaxGrabTicks)

NoHandFrame == NoHandStep(MaxFrames, MaxPoseChanges, MaxGrabTicks)

Next == HandFrame \/ NoHandFrame

Spec == Init /\ [][Next]_vars

\* ---- the loop with a hand that holds its pose, long enough for the
\* cooldown to elapse
\* Fingertips for a run with two boxes: TipCorner is as far from the center
\* of the initial box as that box's size (150), so a box can be created
\* there, and that box (size 100) overlaps the initial one; TipBoth is
\* inside both.
TipCorner == << 760, 450 >>
TipBoth == << 712, 420 >>
HoldTips == { TipBoth, TipCorner }
HoldHands == { [pose |-> p, vec |-> << 10, 0 >>] :
                   p \in { OpenPalm, Pointing, ThreeFinger, Fist } }

HoldFrame ==
    \E tip \in HoldTips, hand \in HoldHands, d \in PinchDistances, hand_scale \in HandScales :
        /\ (hand # pose => controller.frame_index % HoldStretch = 0)
        /\ HandStep(tip, hand, d, hand_scale, MaxHoldFrames, MaxHoldChanges, MaxGrabTicks)

NextHold == HoldFrame

SpecHold == Init /\ [][NextHold]_vars

\* ---- the loop with a hand that points until TRANSFORM is entered, then
\* grabs, moves, scales and turns a shape
PointingHand == [pose |-> Pointing, vec |-> << 10, 0 >>]
TransformHands == { PointingHand,
                    [pose |-> TwoFinger, vec |-> << 10, 0 >>],
                    [pose |-> TwoFinger, vec |-> << 0, 10 >>],
                    [pose |-> Fist, vec |-> << 10, 0 >>] }
TransformTips == { TipInBox, TipClear }
\* Pinched tight, pinched, open.
TransformDistances == { 6, 30, 60 }

TransformFrame ==
    \E tip \in TransformTips, hand \in TransformHands, d \in TransformDistances,
       hand_scale \in HandScales :
        /\ (controller.frame_index < DEBOUNCE_FRAMES => hand = PointingHand)
        /\ (controller.frame_index < DEBOUNCE_FRAMES - 1 => tip = TipInBox /\ d = 60)
        /\ HandStep(tip, hand, d, hand_scale, MaxTransformFrames, MaxTransformFrames,
                    MaxTransformFrames)

NextTransform == TransformFrame

SpecTransform == Init /\ [][NextTransform]_vars

\* ---- the interpreter on its own, as tests/test_gestures.py drives it
\* Pinch distances on, inside and outside the band PINCH_START .. PINCH_END,
\* and a hand that is neither a fist nor a pose with a meaning.
EngineDistances == { 30, 35, 40, 45, 60 }
EngineHands == Hands \cup { [pose |-> PinkyOnly, vec |-> << 10, 0 >>] }

ComputeCall ==
    \E hand \in EngineHands, d \in EngineDistances, hand_scale \in HandScales :
    \E points \in { HandPoints(TipInBox, hand.pose, d, hand.vec) } :
    \E r \in { Compute(gesture_engine, points, hand_scale) } :
        /\ budget.calls < MaxComputeCalls
        /\ gesture_engine' = r.engine
        /\ pose' = hand
        /\ budget' = [budget EXCEPT !.calls = @ + 1]
        /\ obs' = [obs EXCEPT !.hand = TRUE, !.gestures = Some(Signals(r.gestures)),
                              !.pinch_ratio = Some(r.gestures.pinch_ratio)]
        /\ hist' = HistOfCompute(hist, hand.pose)
        /\ UNCHANGED controller

NextEngine == ComputeCall

SpecEngine == Init /\ [][NextEngine]_vars

\* ---- the loop with a hand that points until TRANSFORM is entered, pinches
\* the box and, the pinch held, turns two fingers to the four sides
\* Two fingers pointing right, down, left and up (0, 90, 180 and -90
\* degrees), and the pointing hand.
TurnHands == { PointingHand } \cup
             { [pose |-> TwoFinger, vec |-> v] :
                    v \in { << 10, 0 >>, << 0, 10 >>, << -10, 0 >>, << 0, -10 >> } }

TurnFrame ==
    \E hand \in TurnHands, hand_scale \in HandScales :
    \E d \in { IF controller.frame_index < DEBOUNCE_FRAMES - 1 THEN 60 ELSE 30 } :
        /\ (controller.frame_index < DEBOUNCE_FRAMES => hand = PointingHand)
        /\ HandStep(TipInBox, hand, d, hand_scale, MaxTurnFrames, MaxTurnFrames,
                    MaxTurnFrames)

NextTurn == TurnFrame

SpecTurn == Init /\ [][NextTurn]_vars

\* ---- the loop with a hand that keeps one pose at a time and drops out of
\* the frame now and then
GapHands == { [pose |-> p, vec |-> << 10, 0 >>] : p \in { Pointing, ThreeFinger, Fist } }

GapHandFrame ==
    \E hand \in GapHands, hand_scale \in HandScales :
        HandStep(TipClear, hand, 60, hand_scale, MaxGapFrames, MaxGapChanges, MaxGrabTicks)

GapNoHandFrame == NoHandStep(MaxGapFrames, MaxGapChanges, MaxGrabTicks)

NextGap == GapHandFrame \/ GapNoHandFrame

SpecGap == Init /\ [][NextGap]_vars

\* ---- the loop with a hand that points until TRANSFORM is entered, then
\* pinches the box with the thumb on the index tip, close to it, near it or
\* away from it
ScaleDistances == { 0, 6, 30, 60 }

ScaleFrame ==
    \E d \in ScaleDistances, hand_scale \in HandScales :
        /\ (controller.frame_index < DEBOUNCE_FRAMES - 1 => d = 60)
        /\ HandStep(TipInBox, PointingHand, d, hand_scale, MaxScaleFrames, MaxScaleFrames,
                    MaxScaleFrames)

NextScale == ScaleFrame

SpecScale == Init /\ [][NextScale]_vars

\* ---- rdp on its own
\* The points of the polylines: a grid of 3 by 3 with steps of 1 and 2.
RdpGrid == { << x, y >> : x \in { 0, 1, 3 }, y \in { 0, 1, 3 } }
\* Every polyline of 1 to MaxPolyline grid points, repeated points included.
Polylines == UNION { [1 .. n -> RdpGrid] : n \in 1 .. MaxPolyline }
\* No tolerance; the least tolerance above 0; one pixel; STROKE_EPSILON.
Epsilons == { 0, 1, FloatUnit, STROKE_EPSILON * FloatUnit }

\* The arguments of one call of rdp, not yet made.
InitRdp ==
    /\ gesture_engine = NewGestureInterpreter
    /\ controller = NewController(SCREEN_WIDTH, SCREEN_HEIGHT)
    /\ pose = NoHand
    /\ budget = NewBudget
    /\ hist = NewHist
    /\ obs \in [points : Polylines, epsilon : Epsilons, simplified : { None },
                 again : { None }]

\* The call rdp(points, epsilon); obs keeps the result.
RdpCall ==
    /\ obs.simplified = None
    /\ obs' = [obs EXCEPT !.simplified = Some(rdp(obs.points, obs.epsilon))]
    /\ UNCHANGED << gesture_engine, controller, pose, budget, hist >>

\* The call rdp(simplified, epsilon) on the result of the first call.
RdpAgain ==
    /\ obs.simplified # None
    /\ obs.again = None
    /\ obs' = [obs EXCEPT !.again = Some(rdp(Val(obs.simplified), obs.epsilon))]
    /\ UNCHANGED << gesture_engine, controller, pose, budget, hist >>

NextRdp == RdpCall \/ RdpAgain

SpecRdp == InitRdp /\ [][NextRdp]_vars

\* ============================================================ properties
\* The gesture set of the last frame says sig.
Shows(o, sig) == o.hand /\ o.gestures # None /\ Val(o.gestures)[sig]

\* The label of the last hand tick.
LastLabel(h) == h.labels[Len(h.labels)].label

\* C1: whatever mode (CREATE, TRANSFORM, DRAW) a tick starts in, a tick whose
\* gesture set has is_exit_gesture true ends in IDLE with no shape selected,
\* not drawing, and with an empty stroke.
ExitGestureEndsInIdle ==
    [][(controller.mode # "IDLE" /\ Shows(obs', "is_exit_gesture")) =>
            /\ controller'.mode = "IDLE"
            /\ controller'.selected_shape = NoShape
            /\ ~controller'.is_drawing
            /\ controller'.current_stroke = << >>]_vars

ToggleReturnsOrEnters ==
    [][obs'.mid.fired =>
            LET X == TargetMode(LastLabel(hist'))
            IN  /\ obs'.mid.mode = IF controller.mode = X THEN "IDLE" ELSE X
                /\ (obs'.mid.mode # "TRANSFORM" => obs'.mid.selected_shape = NoShape)
                /\ (obs'.mid.mode # "DRAW" =>
                        ~obs'.mid.is_drawing /\ obs'.mid.stroke_len = 0)]_vars

\* A switch fired in TRANSFORM under an open palm: straight to CREATE.
SwitchedStraightAcross ==
    obs.mid.fired /\ obs.start_mode = "TRANSFORM" /\ obs.mid.mode = "CREATE"

\* C5: is_pinching starts false; it turns true only on a frame whose ratio
\* is below PINCH_START, turns false only on a frame whose ratio is above
\* PINCH_END, and keeps its value on a frame whose ratio is in the band.
PinchHysteresisHolds ==
    /\ ~gesture_engine.is_pinching
    /\ [][LET ratio == Val(obs'.pinch_ratio)
              was == gesture_engine.is_pinching
              now == gesture_engine'.is_pinching
          IN  /\ (~was /\ now => ratio < PINCH_START)
              /\ (was /\ ~now => ratio > PINCH_END)
              /\ (PINCH_START <= ratio /\ ratio <= PINCH_END => now = was)]_vars

\* Pinching kept on a frame whose ratio is the upper edge of the band.
PinchKeptOnEdge ==
    /\ gesture_engine.is_pinching
    /\ obs.pinch_ratio = Some(PINCH_END)

\* The sequence is n values v.
AllOf(seq, n, v) == Len(seq) = n /\ \A i \in 1 .. n : seq[i] = v

\* A flag over the raw inputs so far (the last ones in raws): inactive, it
\* turns active exactly on the input that completes on_frames true ones in a
\* row; active, it turns inactive exactly on the input that completes
\* off_frames false ones in a row.
Debounced(flag, flag_next, raws, on_frames, off_frames) ==
    IF flag.is_active
    THEN ~flag_next.is_active <=> AllOf(raws, off_frames, FALSE)
    ELSE flag_next.is_active <=> AllOf(raws, on_frames, TRUE)

\* C6: is_draw_active (from the three-finger pose) and is_exit_gesture (from
\* the fist) turn true exactly on the third consecutive raw-true frame and
\* false exactly on the third consecutive raw-false frame.
DebounceIsExact ==
    [][/\ Debounced(gesture_engine.draw_state, gesture_engine'.draw_state,
                    hist'.raw_draw, DRAW_START_FRAMES, DRAW_END_FRAMES)
       /\ Debounced(gesture_engine.exit_state, gesture_engine'.exit_state,
                    hist'.raw_fist, EXIT_FRAMES, EXIT_FRAMES)]_vars

\* The draw flag still active after false, true, false: the true input
\* restarted the count of false ones.
DrawFlagSurvivesInterruptedRelease ==
    /\ gesture_engine.draw_state.is_active
    /\ hist.raw_draw = << FALSE, TRUE, FALSE >>
    /\ budget.calls = MaxComputeCalls

\* C7: a tick that starts in DRAW and shows an open palm or a pointing hand
\* ends in DRAW.
DrawIgnoresPalmAndPointing ==
    [][(controller.mode = "DRAW"
            /\ (Shows(obs', "is_open_palm") \/ Shows(obs', "is_pointing"))) =>
        controller'.mode = "DRAW"]_vars

\* C8: a tick whose gesture set has is_exit_gesture true leaves the number
\* of shapes as it was.
ExitAddsNoShape ==
    [][Shows(obs', "is_exit_gesture") =>
        Len(controller'.shapes) = Len(controller.shapes)]_vars

\* C9: after a tick whose gesture set had is_exit_gesture true, no pose-based
\* switch fires until MODE_COOLDOWN_FRAMES ticks have passed.
ExitRestartsCooldown ==
    [][(hist.last_exit > 0 /\ obs'.mid.fired) =>
        controller'.frame_index - hist.last_exit >= MODE_COOLDOWN_FRAMES]_vars

\* A box of shapes has its center closer to point than its own size.
Covered(shapes, point) ==
    \E i \in 1 .. Len(shapes) :
        IsShape2D(shapes[i]) /\ distance(shapes[i].center, point) < shapes[i].size

NoBaseline(c) ==
    /\ c.grab_offset = None /\ c.base_size = None /\ c.base_pinch = None
    /\ c.base_shape_angle = None /\ c.base_finger_angle = None

\* The positions in shapes of the boxes whose hit-test contains point.
BoxesUnder(shapes, point) ==
    {i \in 1 .. Len(shapes) : IsShape2D(shapes[i]) /\ contains_point(shapes[i], point)}

\* C11: on a tick whose handler runs in TRANSFORM with nothing selected: with
\* is_pinching and a box under the index fingertip, the last-created such box
\* becomes selected (a polyline never does); otherwise nothing is selected
\* and no baseline is taken.
PinchSelectsTopmostBox ==
    [][(obs'.hand /\ obs'.mid.mode = "TRANSFORM" /\ obs'.mid.selected_shape = NoShape) =>
            LET under == BoxesUnder(controller.shapes, Val(obs'.index_tip))
            IN  IF Shows(obs', "is_pinching") /\ under # {}
                THEN /\ controller'.selected_shape \in under
                     /\ \A i \in under : i <= controller'.selected_shape
                     /\ controller'.shapes[controller'.selected_shape].is_selected
                     /\ ~NoBaseline(controller')
                ELSE /\ controller'.selected_shape = NoShape
                     /\ NoBaseline(controller')]_vars

\* A pinch with the fingertip inside two boxes has selected the later one.
TopmostOfTwoSelected ==
    /\ obs.hand /\ obs.mid.mode = "TRANSFORM" /\ obs.mid.selected_shape = NoShape
    /\ BoxesUnder(controller.shapes, Val(obs.index_tip)) = {1, 2}
    /\ controller.selected_shape = 2

\* The keypoints of the last frame, from what the frame left behind (the
\* hand scale is RatioUnit pixels, so the pinch ratio is the pinch distance).
PointsSeen(o, hand) == HandPoints(Val(o.index_tip), hand.pose, Val(o.pinch_ratio), hand.vec)

\* The handler of this tick runs in TRANSFORM with the shape selected that
\* was selected when the tick began.
TransformTick(c, o) ==
    o.hand /\ o.mid.mode = "TRANSFORM" /\ c.selected_shape # NoShape

\* The hand holds on: it pinches or points with two fingers.
HoldsOn(o) == Shows(o, "is_pinching") \/ Shows(o, "is_two_finger_point")

SelectionSurvivesOpenPinch ==
    [][(TransformTick(controller, obs') /\ ~HoldsOn(obs')) =>
            controller'.selected_shape = controller.selected_shape]_vars

GrabFollowsAnchor ==
    [][/\ (TransformTick(controller, obs') /\ HoldsOn(obs')) =>
            LET sel == controller.selected_shape
                anchor == PointsSeen(obs', pose')[9]
                offset == Val(controller.grab_offset)
            IN  /\ controller'.shapes[sel].target_center
                       = << anchor[1] + offset[1], anchor[2] + offset[2] >>
                /\ controller'.grab_offset = controller.grab_offset
       /\ (controller.selected_shape = NoShape /\ controller'.selected_shape # NoShape) =>
            LET center == controller.shapes[controller'.selected_shape].center
                anchor == PointsSeen(obs', pose')[9]
            IN  controller'.grab_offset
                    = Some(<< center[1] - anchor[1], center[2] - anchor[2] >>)]_vars

\* A shape grabbed off its center is dragged by a hand that has moved.
DraggedOffCenter ==
    /\ controller.selected_shape = 1 /\ obs.mid.selected_shape = 1
    /\ obs.index_tip = Some(TipClear)
    /\ controller.grab_offset = Some(<< 0, -40 >>)
    /\ controller.shapes[1].target_center = TipClear

StrokeFollowsDebouncedSignal ==
    [][(obs'.hand /\ controller.is_drawing # controller'.is_drawing) =>
            (controller'.is_drawing <=> Shows(obs', "is_draw_active"))]_vars

\* C18: a tick that finalizes a stroke leaves the buffer empty, is_drawing
\* false and the mode IDLE; a stroke of fewer than STROKE_MIN_POINTS points
\* adds no shape, any other adds one polyline at the end of the collection,
\* with the points rdp(stroke, STROKE_EPSILON).
FinalizedStrokeCommitsOrDrops ==
    [][(controller.is_drawing /\ ~controller'.is_drawing) =>
            LET stroke == controller.current_stroke
                old == Render(controller).shapes
            IN  /\ controller'.current_stroke = << >>
                /\ controller'.mode = "IDLE"
                /\ controller'.shapes
                       = IF Len(stroke) < STROKE_MIN_POINTS THEN old
                         ELSE Append(old, NewPolylineShape(rdp(stroke, STROKE_EPSILON * FloatUnit)))]_vars

\* A stroke of five points has been committed as a polyline of three.
FiveCommittedAsThree ==
    /\ obs.start_mode = "DRAW" /\ controller.mode = "IDLE" /\ ~controller.is_drawing
    /\ Len(controller.shapes) = 2
    /\ ~IsShape2D(controller.shapes[2])
    /\ Len(controller.shapes[2].points) = 3

\* rdp has been called.
RdpCalled == obs.simplified # None

\* The points are on one line and listed in order along it: every point is
\* on the line through the first and the last, and no step goes backwards
\* (all points are the same when the first is the last).
CollinearInOrder(points) ==
    LET n == Len(points)
        dx == points[n][1] - points[1][1]
        dy == points[n][2] - points[1][2]
    IN  /\ \A i \in 1 .. n :
            (points[i][1] - points[1][1]) * dy = (points[i][2] - points[1][2]) * dx
        /\ \A i \in 1 .. (n - 1) :
            (points[i + 1][1] - points[i][1]) * dx
                + (points[i + 1][2] - points[i][2]) * dy >= 0
        /\ (dx = 0 /\ dy = 0 => \A i \in 1 .. n : points[i] = points[1])

\* C19: rdp of at least 2 collinear points in order along their line, with
\* any epsilon above 0, is the first and the last point.
CollinearGivesEndpoints ==
    (RdpCalled /\ obs.epsilon > 0 /\ Len(obs.points) >= 2 /\ CollinearInOrder(obs.points)) =>
        Val(obs.simplified) = << obs.points[1], obs.points[Len(obs.points)] >>

\* C20: rdp with epsilon 0 returns its input, the same points in the same
\* order, whatever the polyline.
ZeroEpsilonIsNoOp ==
    (RdpCalled /\ obs.epsilon = 0) => Val(obs.simplified) = obs.points

\* sub is what is left of whole after dropping some of its elements.
RECURSIVE IsSubsequence(_, _)
IsSubsequence(sub, whole) ==
    IF sub = << >> THEN TRUE
    ELSE IF whole = << >> THEN FALSE
    ELSE IF Head(sub) = Head(whole) THEN IsSubsequence(Tail(sub), Tail(whole))
    ELSE IsSubsequence(sub, Tail(whole))

\* C21: the result of rdp starts with the first point of its input, ends
\* with the last, and is a subsequence of it; simplifying the result again
\* with the same epsilon gives the result.
RdpIsIdempotent ==
    /\ RdpCalled =>
        LET out == Val(obs.simplified)
        IN  /\ out # << >>
            /\ out[1] = obs.points[1]
            /\ out[Len(out)] = obs.points[Len(obs.points)]
            /\ IsSubsequence(out, obs.points)
    /\ (RdpCalled /\ obs.again # None) => Val(obs.again) = Val(obs.simplified)

\* A polyline of 4 points that lost one, simplified again to the same 3.
ThreeOfFourAgain ==
    /\ RdpCalled /\ obs.again # None
    /\ Len(obs.points) = 4 /\ Len(Val(obs.simplified)) = 3
    /\ Val(obs.again) = Val(obs.simplified)

\* C22: a tick with no hand leaves the mode, the selection, the transform
\* baselines, the stroke buffer and is_drawing as they were, and the shape
\* collection is the old one with every shape interpolated once.
NoHandTickOnlyInterpolates ==
    [][~obs'.hand =>
            /\ controller'.mode = controller.mode
            /\ controller'.selected_shape = controller.selected_shape
            /\ controller'.grab_offset = controller.grab_offset
            /\ controller'.base_size = controller.base_size
            /\ controller'.base_pinch = controller.base_pinch
            /\ controller'.base_shape_angle = controller.base_shape_angle
            /\ controller'.base_finger_angle = controller.base_finger_angle
            /\ controller'.current_stroke = controller.current_stroke
            /\ controller'.is_drawing = controller.is_drawing
            /\ Len(controller'.shapes) = Len(controller.shapes)
            /\ \A i \in 1 .. Len(controller.shapes) :
                    controller'.shapes[i] = ShapeUpdate(controller.shapes[i])]_vars

\* The hand is lost in TRANSFORM one tick after a dragged box was let go:
\* the box is still on its way to where it was dragged.
HandLostWhileBoxMoves ==
    /\ ~obs.hand /\ controller.frame_index > 0
    /\ controller.mode = "TRANSFORM"
    /\ controller.shapes[1].target_center = TipClear
    /\ controller.shapes[1].center # TipClear
    /\ controller.shapes[1].center # << SCREEN_WIDTH \div 2, SCREEN_HEIGHT \div 2 >>

\* The shape as render leaves it when the handlers have given it the
\* targets and the selection mark of after.
InterpolatedTo(shape, after) ==
    IF IsShape2D(shape)
    THEN ShapeUpdate([shape EXCEPT !.target_center = after.target_center,
                                   !.target_size = after.target_size,
                                   !.target_angle = after.target_angle,
                                   !.is_selected = after.is_selected])
    ELSE shape

\* C23: a tick with a hand is one step: the gesture set is the one compute
\* returned in this tick; the switch is evaluated on it; the handler that
\* runs is the one of the mode the switch left (obs.mid) and it acts on this
\* tick's signals and fingertip; every shape is interpolated once, after
\* the handler, towards the targets the handler left.
TickRunsStagesInOrder ==
    [][obs'.hand =>
            LET g == Val(obs'.gestures)
                m == obs'.mid
                c == controller'
            IN  /\ c.frame_index = controller.frame_index + 1
                /\ gesture_engine'.is_pinching = g.is_pinching
                /\ gesture_engine'.draw_state.is_active = g.is_draw_active
                /\ gesture_engine'.exit_state.is_active = g.is_exit_gesture
                /\ (m.fired => PersistentGesture(g) # NoGesture /\ m.mode # obs'.start_mode)
                /\ (~m.fired => m.mode = obs'.start_mode)
                /\ (m.mode = "IDLE" =>
                        /\ c.mode = "IDLE" /\ c.selected_shape = NoShape
                        /\ Len(c.shapes) = m.n_shapes /\ c.is_drawing = m.is_drawing)
                /\ (m.mode = "CREATE" =>
                        LET spawn == g.is_pinching
                                        /\ ~Covered(controller.shapes, Val(obs'.index_tip))
                        IN  /\ Len(c.shapes) = m.n_shapes + (IF spawn THEN 1 ELSE 0)
                            /\ c.mode = (IF spawn THEN "IDLE" ELSE "CREATE"))
                /\ (m.mode = "TRANSFORM" =>
                        /\ c.mode = "TRANSFORM" /\ Len(c.shapes) = m.n_shapes
                        /\ (m.selected_shape = NoShape =>
                                (c.selected_shape # NoShape <=>
                                    /\ g.is_pinching
                                    /\ BoxesUnder(controller.shapes, Val(obs'.index_tip)) # { }))
                        /\ (m.selected_shape # NoShape =>
                                (c.selected_shape # NoShape <=>
                                    g.is_pinching \/ g.is_two_finger_point)))
                /\ (m.mode = "DRAW" =>
                        /\ c.is_drawing = g.is_draw_gesture
                        /\ (g.is_draw_gesture /\ ~m.is_drawing =>
                                c.current_stroke = << Val(obs'.index_tip) >>)
                        /\ c.mode = (IF m.is_drawing /\ ~g.is_draw_gesture
                                     THEN "IDLE" ELSE "DRAW"))
                /\ \A i \in 1 .. Len(controller.shapes) :
                        c.shapes[i] = InterpolatedTo(controller.shapes[i], c.shapes[i])]_vars

\* The tick whose switch entered TRANSFORM also selected the box under the
\* pinch: the handler of the new mode ran in the tick of the switch.
SelectedInSwitchTick ==
    /\ obs.hand /\ obs.mid.fired
    /\ obs.start_mode = "IDLE" /\ controller.mode = "TRANSFORM"
    /\ controller.selected_shape # NoShape

\* C24: the label a hand tick leaves in _last_gesture is open_palm if
\* is_open_palm, else pointing if is_pointing, else draw if the debounced
\* is_draw_active is true, else none.
LabelUsesDebouncedDraw ==
    [][obs'.hand =>
            LET g == Val(obs'.gestures)
            IN  controller'.last_gesture =
                    IF g.is_open_palm THEN "open_palm"
                    ELSE IF g.is_pointing THEN "pointing"
                    ELSE IF g.is_draw_active THEN "draw"
                    ELSE NoGesture]_vars

\* C26: one pose shown on every tick since the first fires at most one
\* switch, however long it is held.
HeldPoseSwitchesOnce ==
    budget.pose_changes <= 1 => Len(hist.switches) <= 1

\* C27: in DRAW with a stroke in progress, a tick that shows the
\* three-finger gesture and no exit gesture leaves the mode DRAW and the
\* stroke in progress.
HeldDrawKeepsStroke ==
    [][(/\ controller.mode = "DRAW" /\ controller.is_drawing
        /\ Shows(obs', "is_draw_gesture") /\ ~Shows(obs', "is_exit_gesture")) =>
            /\ controller'.mode = "DRAW"
            /\ controller'.is_drawing
            /\ Len(controller'.current_stroke) >= Len(controller.current_stroke)]_vars

\* C25: over any tick the shapes that were in the collection are still
\* there, at their places and in their order (each the old shape, moved by
\* render at most), the length does not go down, and what is new comes
\* after them.
ShapesAreAppendOnly ==
    [][/\ Len(controller'.shapes) >= Len(controller.shapes)
       /\ \A i \in 1 .. Len(controller.shapes) :
            /\ controller'.shapes[i].kind = controller.shapes[i].kind
            /\ controller'.shapes[i] = InterpolatedTo(controller.shapes[i], controller'.shapes[i])]_vars

\* A polyline committed on top of the first box, and a box spawned on top
\* of both.
BoxOverPolylineOverBox ==
    /\ Len(controller.shapes) = 3
    /\ IsShape2D(controller.shapes[1])
    /\ ~IsShape2D(controller.shapes[2])
    /\ IsShape2D(controller.shapes[3])

\* C28: a hand tick that starts in IDLE, is the DEBOUNCE_FRAMES-th hand
\* tick in a row with one pose label, and comes MODE_COOLDOWN_FRAMES ticks
\* or more after the previous switch (a fresh controller counts as switched
\* at tick -30) fires the switch into the mode of the label.
HeldPoseSwitchesInTime ==
    [][(/\ obs'.hand /\ obs'.start_mode = "IDLE"
        /\ Len(hist'.labels) = DEBOUNCE_FRAMES
        /\ LastLabel(hist') # NoGesture
        /\ \A i \in 1 .. DEBOUNCE_FRAMES : hist'.labels[i].label = LastLabel(hist')
        /\ controller'.frame_index - controller.last_mode_switch_frame
                >= MODE_COOLDOWN_FRAMES) =>
            /\ obs'.mid.fired
            /\ obs'.mid.mode = TargetMode(LastLabel(hist'))]_vars

\* A box was spawned in the tick of the switch of tick 10; pointing, held
\* for 10 ticks or more, entered TRANSFORM on tick 40, the first tick 30
\* after that switch.
SecondSwitchOnTime ==
    /\ obs.hand /\ obs.mid.fired /\ obs.start_mode = "IDLE"
    /\ obs.mid.mode = "TRANSFORM"
    /\ hist.switches = << DEBOUNCE_FRAMES, DEBOUNCE_FRAMES + MODE_COOLDOWN_FRAMES >>
    /\ Len(controller.shapes) = 2

\* C29: for every box, the delta that update scales, normalize_angle of
\* the target angle the tick left less the angle before render, is at most
\* 180 degrees either way (the short way round), and the angle after the
\* tick is in 0 .. 359.
TurnsTheShortWay ==
    [][\A i \in 1 .. Len(controller.shapes) :
            IsShape2D(controller.shapes[i]) =>
                LET delta == normalize_angle(controller'.shapes[i].target_angle
                                                - controller.shapes[i].angle)
                IN  /\ delta >= -180 /\ delta <= 180
                    /\ controller'.shapes[i].angle \in 0 .. 359]_vars

\* C30, as amended: on a transform tick with is_two_finger_point that
\* follows a tick on which the shape was already selected and the handler
\* ran without is_two_finger_point (a release), the finger baseline becomes
\* this tick's finger angle, the shape baseline the shape's angle, and
\* target_angle is that angle: the re-entry turns the shape by nothing.
ReentryReanchors ==
    [][(/\ obs.hand /\ obs.mid.mode = "TRANSFORM" /\ obs.mid.selected_shape # NoShape
        /\ ~Shows(obs, "is_two_finger_point")
        /\ TransformTick(controller, obs') /\ Shows(obs', "is_two_finger_point")) =>
            LET sel == controller.selected_shape
                points == PointsSeen(obs', pose')
            IN  /\ controller'.selected_shape = sel
                /\ controller'.base_finger_angle
                        = Some(angle_degrees(points[8], points[12]))
                /\ controller'.base_shape_angle = Some(controller.shapes[sel].angle)
                /\ controller'.shapes[sel].target_angle = controller.shapes[sel].angle
                /\ controller'.shapes[sel].angle = controller.shapes[sel].angle]_vars

\* The box, turned back to 329 by two fingers and let go on its way to 270,
\* is taken up at 309 by two fingers pointing left: both baselines are of
\* this tick and the box stays at 309.
ReanchoredAfterRelease ==
    /\ obs.hand /\ Shows(obs, "is_two_finger_point")
    /\ controller.selected_shape = 1
    /\ controller.base_finger_angle = Some(180)
    /\ controller.base_shape_angle = Some(309)
    /\ controller.shapes[1].target_angle = 309
    /\ controller.shapes[1].angle = 309

\* C30, as stated: on the first transform tick with is_two_finger_point
\* after a tick of the same selection without it, the tick of the selection
\* included, the finger baseline is this tick's finger angle and
\* target_angle is the shape's angle.
FirstEntryReanchors ==
    [][(/\ obs.hand /\ controller.selected_shape # NoShape
        /\ ~Shows(obs, "is_two_finger_point")
        /\ TransformTick(controller, obs') /\ Shows(obs', "is_two_finger_point")) =>
            LET sel == controller.selected_shape
                points == PointsSeen(obs', pose')
            IN  /\ controller'.base_finger_angle
                        = Some(angle_degrees(points[8], points[12]))
                /\ controller'.shapes[sel].target_angle = controller.shapes[sel].angle]_vars

\* C31: after every tick a shape is selected only in TRANSFORM, the
\* selected shape is one of the collection, and is_selected is true of that
\* shape and of no other.
SelectionOnlyInTransform ==
    /\ controller.selected_shape # NoShape =>
            /\ controller.mode = "TRANSFORM"
            /\ controller.selected_shape \in 1 .. Len(controller.shapes)
    /\ \A i \in 1 .. Len(controller.shapes) :
            controller.shapes[i].is_selected <=> i = controller.selected_shape

\* TRANSFORM was left for CREATE by a switch, in a run that had a box
\* selected and with the pinch still closed: nothing is selected.
SwitchedOutUnselected ==
    /\ obs.hand /\ obs.mid.fired
    /\ obs.start_mode = "TRANSFORM" /\ obs.mid.mode = "CREATE"
    /\ Shows(obs, "is_pinching")
    /\ budget.grab_ticks > 0
    /\ controller.selected_shape = NoShape

\* C32: whenever no shape is selected the five baseline fields are None,
\* and a tick that selects a shape sets all five from that tick: the
\* shape's centre less the anchor points[9], its size, the tick's
\* pinch_ratio, its angle and the angle from points[8] to points[12].
BaselineDoesNotLeak ==
    /\ [](controller.selected_shape = NoShape => NoBaseline(controller))
    /\ [][(/\ obs'.hand /\ obs'.mid.selected_shape = NoShape
           /\ controller'.selected_shape # NoShape) =>
                LET shape == controller.shapes[controller'.selected_shape]
                    points == PointsSeen(obs', pose')
                IN  /\ controller'.grab_offset
                            = Some(<< shape.center[1] - points[9][1],
                                      shape.center[2] - points[9][2] >>)
                    /\ controller'.base_size = Some(shape.size)
                    /\ controller'.base_pinch = Some(Val(obs'.pinch_ratio))
                    /\ controller'.base_shape_angle = Some(shape.angle)
                    /\ controller'.base_finger_angle
                            = Some(angle_degrees(points[8], points[12]))]_vars

\* The second selection of a run, made on tick 12 with a tight pinch and
\* two fingers pointing down: the baseline is that of this tick.
SecondSelectionHasOwnBaseline ==
    /\ controller.frame_index = 12 /\ budget.grab_ticks = 2
    /\ obs.hand /\ obs.mid.selected_shape = NoShape
    /\ controller.selected_shape = 1
    /\ controller.base_pinch = Some(6)
    /\ controller.base_finger_angle = Some(90)
    /\ controller.base_size = Some(150)
    /\ controller.grab_offset = Some(<< 0, -40 >>)

\* C33: after every tick is_drawing is true exactly in mode DRAW, and
\* current_stroke has points exactly when is_drawing is true.
StrokeStateMatchesMode ==
    /\ controller.is_drawing <=> controller.mode = "DRAW"
    /\ controller.current_stroke # << >> <=> controller.is_drawing

\* A short stroke was dropped by a tick without the three-finger pose: the
\* mode is IDLE, nothing is being drawn and no point is left.
ShortStrokeLeftNoPoints ==
    /\ obs.hand /\ obs.start_mode = "DRAW" /\ obs.mid.is_drawing
    /\ obs.mid.stroke_len = 2 /\ ~obs.mid.fired
    /\ controller.mode = "IDLE" /\ ~controller.is_drawing
    /\ controller.current_stroke = << >>
    /\ Len(controller.shapes) = 1

\* C34: a gap of ticks without a hand restarts the counts.  A switch fires
\* only on the tenth or a later tick of an unbroken run of hand ticks;
\* is_draw_active turns true only on the DRAW_START_FRAMES-th or a later
\* tick of such a run, and is_exit_gesture only on the EXIT_FRAMES-th or a
\* later one.
GapRestartsCounts ==
    /\ [](obs.mid.fired => hist.hand_run >= DEBOUNCE_FRAMES)
    /\ [][(Shows(obs', "is_draw_active") /\ ~gesture_engine.draw_state.is_active) =>
                hist'.hand_run >= DRAW_START_FRAMES]_vars
    /\ [][(Shows(obs', "is_exit_gesture") /\ ~gesture_engine.exit_state.is_active) =>
                hist'.hand_run >= EXIT_FRAMES]_vars

\* C35: the target_size of every box is within 20 .. 600 in every state,
\* and a tick that runs _apply_transform with a pinch_ratio of zero, or with
\* a baseline pinch of zero, leaves the target_size of the selected box as
\* it was.
SizeBoundAndGuardedDivision ==
    /\ [](\A i \in 1 .. Len(controller.shapes) :
                IsShape2D(controller.shapes[i]) =>
                    controller.shapes[i].target_size \in 20 .. 600)
    /\ [][(/\ obs'.hand /\ obs'.mid.selected_shape # NoShape
           /\ controller'.selected_shape # NoShape
           /\ (Val(obs'.pinch_ratio) = 0 \/ controller.base_pinch = Some(0))) =>
                controller'.shapes[controller'.selected_shape].target_size
                    = controller.shapes[controller.selected_shape].target_size]_vars

\* The box, grabbed at a pinch of 30 and scaled up to the upper bound by a
\* pinch of 6, keeps its target size of 600 on a tick whose thumb is on the
\* index tip.
ZeroPinchKeepsClampedSize ==
    /\ obs.hand /\ obs.mid.selected_shape = 1 /\ controller.selected_shape = 1
    /\ Val(obs.pinch_ratio) = 0
    /\ controller.base_pinch = Some(30)
    /\ controller.shapes[1].target_size = 600

====
